---- MODULE Spec2Model ----
(***************************************************************************)
(* EDINET Viewer: the storage access layer (db_helper.py), the screening   *)
(* page (pages/04_Screening.py) and the comparison page                    *)
(* (pages/03_Compare.py) as state machines.                                *)
(*                                                                         *)
(* A Streamlit page is a script that is run again from the top on every    *)
(* widget interaction, so a page action is "set one widget, then run the   *)
(* whole script".                                                          *)
(***************************************************************************)
EXTENDS Integers, Sequences, FiniteSets, TLC

VARIABLES
    dbFile,          \* state of DB_PATH: "present", "absent" or "unopenable"
    schema,          \* the tables, views and optional columns the store has
    openConns,       \* sqlite connections currently open
    lastCall,        \* record of the last data-access operation
    kf,              \* rows of v_key_financials
    companies,       \* rows of get_company_list(): (sec_code, filer_name) pairs
    bounds,          \* screening page: the 12 number_input widgets
    sort_option,     \* screening page: the sort selectbox
    scr,             \* screening page: what the last run produced
    selected_labels, \* comparison page: the multiselect widget
    chart_metric,    \* comparison page: the overlay selectbox
    cmp,             \* comparison page: what the last run produced
    request,         \* the last operation called and its arguments
    returned,        \* what that operation gave back to its caller
    tb,              \* rows of text_blocks
    now,             \* the clock, in seconds
    cache,           \* st.cache_data: the entries of the memoized functions
    changed_at       \* when the ingestion pipeline last changed the store

vars == <<dbFile, schema, openConns, lastCall, kf, companies, bounds,
          sort_option, scr,
          selected_labels, chart_metric, cmp,
          request, returned, tb, now, cache, changed_at>>

connVars == <<dbFile, schema, openConns, lastCall>>
storeVars == <<kf, companies>>
screenVars == <<bounds, sort_option, scr>>
compareVars == <<selected_labels, chart_metric, cmp>>
callVars == <<request, returned>>
textVars == <<tb>>
cacheVars == <<now, cache, changed_at>>

\* SQL NULL / None / NaN, and the two float infinities, as integers outside
\* the range of every value of the model: the infinities compare with the
\* finite values as floats do, Null is tested for before any comparison.
Null == 0 - 2147483647
NegInf == 0 - 2000000000
PosInf == 0 + 2000000000

(***************************************************************************)
(* Storage access layer                                                    *)
(***************************************************************************)

\* What the store may contain: three required/optional tables, the view and
\* the two optional status columns of documents.
SchemaObjects ==
    {"documents", "parse_status", "dl_status", "key_financials",
     "financials", "text_blocks", "v_key_financials"}

FullSchema == SchemaObjects

DbFileStates == {"present", "absent", "unopenable"}

\* Mutant of get_connection: the existence of the file is not checked.
get_connection_unchecked ==
    IF dbFile = "unopenable" THEN "raise" ELSE "conn"

\* get_connection: st.error + st.stop when the file is missing (no connection
\* is made); sqlite3.connect raises when the file cannot be opened.
get_connection ==
    IF dbFile = "absent" THEN "stop"
    ELSE IF dbFile = "unopenable" THEN "raise"
    ELSE "conn"

\* A statement succeeds iff every table/column it names exists.
Executes(objects) == objects \subseteq schema

\* Mutant of query_df: the connection is closed on the normal path only.
query_df_close_on_success_only(objects, rows, empty) ==
    IF get_connection # "conn"
    THEN [outcome |-> get_connection, acquired |-> 0, released |-> 0,
          rows |-> empty]
    ELSE IF Executes(objects)
         THEN [outcome |-> "ok", acquired |-> 1, released |-> 1, rows |-> rows]
         ELSE [outcome |-> "raise", acquired |-> 1, released |-> 0,
               rows |-> empty]

\* _query_df: conn = get_connection(); try: read_sql_query; finally: close.
\* `rows` is what the statement selects, `empty` the value of no result.
query_df(objects, rows, empty) ==
    IF get_connection # "conn"
    THEN [outcome |-> get_connection, acquired |-> 0, released |-> 0,
          rows |-> empty]
    ELSE IF Executes(objects)
         THEN [outcome |-> "ok", acquired |-> 1, released |-> 1, rows |-> rows]
         ELSE [outcome |-> "raise", acquired |-> 1, released |-> 1,
               rows |-> empty]

\* What the caller of an operation gets: its value when it returns, nothing
\* when it raises or the script is stopped inside it.
NoValue == <<"no value">>
Returned(q) ==
    [outcome |-> q.outcome,
     value |-> IF q.outcome = "ok" THEN q.rows ELSE NoValue,
     error |-> IF q.outcome = "stop" THEN "database not found" ELSE "none"]

\* Stands for the rows a statement selects where their content is not
\* looked at.
SomeRows == <<"rows">>

\* An early return that touches no connection (blank keyword, empty list).
NoQuery(empty) ==
    [outcome |-> "ok", acquired |-> 0, released |-> 0, rows |-> empty]

\* The functions that open their own connection and run statements on it
\* inside try/finally: the statement may raise, the finally closes.
direct_conn(objects, rows, empty) ==
    IF get_connection # "conn"
    THEN [outcome |-> get_connection, acquired |-> 0, released |-> 0,
          rows |-> empty]
    ELSE [outcome |-> IF Executes(objects) THEN "ok" ELSE "raise",
          acquired |-> 1, released |-> 1,
          rows |-> IF Executes(objects) THEN rows ELSE empty]

\* get_db_stats: the statements on documents are required; the statements on
\* the status columns, key_financials/financials and text_blocks are wrapped
\* in try/except and fall back to 0.
get_db_stats ==
    direct_conn({"documents"},
        [total_companies |-> Cardinality({c.sec_code : c \in companies}),
         parsed_docs |-> IF Executes({"documents", "parse_status"})
                         THEN "counted" ELSE "zero",
         downloaded_docs |-> IF Executes({"documents", "dl_status"})
                             THEN "counted" ELSE "zero",
         financial_records |-> IF Executes({"key_financials"})
                               THEN "key_financials"
                               ELSE IF Executes({"financials"})
                                    THEN "financials" ELSE "zero",
         text_blocks |-> IF Executes({"text_blocks"})
                         THEN "counted" ELSE "zero"],
        Null)

\* The functions built on _query_df, by the tables their statement reads.
\* What they select is modelled where a page uses it; here `selected`
\* stands for the rows of a statement that ran.
get_company_list(selected) == query_df({"documents"}, selected, <<>>)

\* search_companies: a blank keyword returns before any connection is made.
search_companies(blank, selected) ==
    IF blank THEN NoQuery(<<>>)
    ELSE query_df({"documents"}, selected, <<>>)

get_company_documents(selected) == query_df({"documents"}, selected, <<>>)

get_key_financials(selected) ==
    query_df({"v_key_financials"}, selected, <<>>)

\* Mutant of get_financial_details: the failure is not caught.
get_financial_details_uncaught(selected) ==
    query_df({"financials"}, selected, <<>>)

\* get_financial_details: `except Exception` turns a failed statement into
\* an empty frame; st.stop() is not an Exception and passes through.
get_financial_details(selected) ==
    LET q == query_df({"financials"}, selected, <<>>)
    IN  IF q.outcome = "raise"
        THEN [q EXCEPT !.outcome = "ok", !.rows = <<>>]
        ELSE q

get_company_text_blocks(selected) ==
    query_df({"text_blocks"}, selected, <<>>)

get_company_info(selected) == direct_conn({"documents"}, selected, <<>>)

\* get_multi_company_financials: an empty list returns before any
\* connection is made.
get_multi_company_financials(sec_codes, selected) ==
    IF sec_codes = <<>> THEN NoQuery(<<>>)
    ELSE query_df({"v_key_financials"}, selected, <<>>)

get_text_block_sections(selected) ==
    direct_conn({"text_blocks"}, selected, <<>>)

search_text_blocks(selected) == query_df({"text_blocks"}, selected, <<>>)

get_recent_documents(selected) == query_df({"documents"}, selected, <<>>)

(***************************************************************************)
(* The store: v_key_financials                                             *)
(***************************************************************************)

\* Security codes are numbers (numeric strings of one length sort like
\* numbers); fiscal period ends are yyyymmdd numbers (ISO dates sort alike).
PeriodEnds == {20230331, 20240331}

\* The nine monetary columns of a row, in yen; Null is SQL NULL.
MoneyCols ==
    {"sales", "operating_income", "ordinary_income", "net_income",
     "total_assets", "net_assets", "operating_cf", "investing_cf",
     "financing_cf"}

\* The monetary values a row of the model may carry.
Profiles ==
    { [sales |-> 120000000, operating_income |-> 12000000,
       ordinary_income |-> 13000000, net_income |-> 5000000,
       total_assets |-> 200000000, net_assets |-> 100000000,
       operating_cf |-> 10000000, investing_cf |-> -5000000,
       financing_cf |-> Null],
      [sales |-> 123000000, operating_income |-> -30000000,
       ordinary_income |-> Null, net_income |-> -40000000,
       total_assets |-> 0, net_assets |-> 100000000,
       operating_cf |-> -20000000, investing_cf |-> Null,
       financing_cf |-> 30000000],
      [sales |-> Null, operating_income |-> 10000000,
       ordinary_income |-> 10000000, net_income |-> Null,
       total_assets |-> 150000000, net_assets |-> Null,
       operating_cf |-> Null, investing_cf |-> Null,
       financing_cf |-> Null],
      [sales |-> 0, operating_income |-> -10000000,
       ordinary_income |-> 0, net_income |-> 0,
       total_assets |-> 0, net_assets |-> 0,
       operating_cf |-> 0, investing_cf |-> 0,
       financing_cf |-> 0],
      [sales |-> 50000000, operating_income |-> 10000000,
       ordinary_income |-> 10000000, net_income |-> 10000000,
       total_assets |-> 80000000, net_assets |-> -20000000,
       operating_cf |-> 50000000, investing_cf |-> -10000000,
       financing_cf |-> -10000000] }

KfKey(r) == <<r.sec_code, r.period_end, r.is_consolidated>>

MkRow(code, name, period, cons, p) ==
    [sec_code |-> code, filer_name |-> name, period_end |-> period,
     is_consolidated |-> cons] @@ p

\* The invariant of the view: at most one row per
\* (sec_code, period_end, is_consolidated).
KeyUnique(rows) ==
    \A r1, r2 \in rows : KfKey(r1) = KfKey(r2) => r1 = r2

\* ORDER BY sec_code over rows of distinct keys (no NULL sec_code).
RECURSIVE SortBySecCode(_)
SortBySecCode(rows) ==
    IF rows = {} THEN <<>>
    ELSE LET first == CHOOSE r \in rows :
                          \A o \in rows :
                              \/ r.sec_code < o.sec_code
                              \/ /\ r.sec_code = o.sec_code
                                 /\ r.period_end >= o.period_end
         IN  <<first>> \o SortBySecCode(rows \ {first})

SeqToSet(s) == {s[i] : i \in 1..Len(s)}

\* The join without the period condition: every consolidated row.
LatestConsolidated_every_period ==
    {v \in kf : v.is_consolidated = 1 /\ v.sec_code # Null}

\* get_screening_data: per sec_code the greatest period_end over the
\* consolidated rows (the CTE), joined back to the consolidated rows,
\* ordered by sec_code. A NULL sec_code never satisfies the join's equality.
LatestConsolidated ==
    {v \in kf :
        /\ v.is_consolidated = 1
        /\ v.sec_code # Null
        /\ \A o \in kf :
              (o.is_consolidated = 1 /\ o.sec_code = v.sec_code)
                  => o.period_end <= v.period_end}

get_screening_data ==
    query_df({"v_key_financials"},
             SortBySecCode(LatestConsolidated), <<>>)

(***************************************************************************)
(* Screening page (pages/04_Screening.py)                                  *)
(***************************************************************************)

\* 1e8: yen per oku-yen.
YenPerOku == 100000000

\* Round a non-negative quotient whole + rem/den to the nearest integer,
\* halves to even (numpy's round).
RoundHalfEven(whole, rem, den) ==
    IF 2 * rem < den THEN whole
    ELSE IF 2 * rem > den THEN whole + 1
    ELSE IF whole % 2 = 0 THEN whole ELSE whole + 1

Abs(n) == IF n < 0 THEN 0 - n ELSE n

\* round(yen / 1e8, 1), in tenths of an oku-yen; Null stays Null.
RoundOku(yen) ==
    IF yen = Null THEN Null
    ELSE LET tenth == YenPerOku \div 10
             mag == RoundHalfEven(Abs(yen) \div tenth, Abs(yen) % tenth, tenth)
         IN  IF yen < 0 THEN 0 - mag ELSE mag

\* round(num / den * 100, 1) for den # 0, in tenths of a percent, by long
\* division (three decimal digits of the quotient, then the rounding).
RoundPct(num, den) ==
    LET n == Abs(num)
        d == Abs(den)
        r0 == n % d
        r1 == (r0 * 10) % d
        r2 == (r1 * 10) % d
        r3 == (r2 * 10) % d
        whole == (n \div d) * 1000 + ((r0 * 10) \div d) * 100
                 + ((r1 * 10) \div d) * 10 + ((r2 * 10) \div d)
        mag == RoundHalfEven(whole, r3, d)
    IN  IF (num < 0) # (den < 0) THEN 0 - mag ELSE mag

\* (num / den * 100).round(1) on float columns: a NULL operand gives NaN,
\* x / 0 gives +inf or -inf by the sign of x, 0 / 0 gives NaN; none raises.
RatioPct(num, den) ==
    IF num = Null \/ den = Null THEN Null
    ELSE IF den = 0
         THEN IF num > 0 THEN PosInf ELSE IF num < 0 THEN NegInf ELSE Null
         ELSE RoundPct(num, den)

\* Lines 28-44: the derived columns. The *_oku columns are the yen columns
\* divided by 1e8; the model keeps the yen and scales at each use.
Normalize(r) ==
    r @@ [equity_ratio |-> RatioPct(r.net_assets, r.total_assets),
          op_margin |-> RatioPct(r.operating_income, r.sales)]

\* The 12 number_input widgets; Null is "left empty" (value None).
OkuBounds ==
    {"sales_min", "sales_max", "op_min", "op_max", "ni_min", "ni_max",
     "ta_min", "ta_max"}
PctBounds == {"eq_min", "eq_max", "margin_min", "margin_max"}
BoundKeys == OkuBounds \cup PctBounds

\* Mutant of OkuGe: the lower bound is exclusive.
OkuGe_exclusive(yen, bound) ==
    yen # Null /\ yen > bound * (100000000 \div 10)

\* frame[col_oku] >= bound, bound in tenths of an oku-yen: NaN compares False.
OkuGe(yen, bound) == yen # Null /\ yen >= bound * (YenPerOku \div 10)
OkuLe(yen, bound) == yen # Null /\ yen <= bound * (YenPerOku \div 10)

\* frame[ratio] >= bound, both in tenths of a percent: NaN compares False,
\* an infinity compares as a float does.
PctGe(pct, bound) == pct # Null /\ pct >= bound
PctLe(pct, bound) == pct # Null /\ pct <= bound

\* Mutant of FilterOku: the upper bound is not applied.
FilterOku_min_only(rows, col, lo, hi) ==
    IF lo # Null
    THEN SelectSeq(rows, LAMBDA r : r[col] # Null /\ r[col] >= lo * 10000000)
    ELSE rows

\* One pair of "if min is not None / if max is not None" statements.
FilterOku(rows, col, lo, hi) ==
    LET a == IF lo # Null
             THEN SelectSeq(rows, LAMBDA r : OkuGe(r[col], lo)) ELSE rows
    IN  IF hi # Null THEN SelectSeq(a, LAMBDA r : OkuLe(r[col], hi)) ELSE a

FilterPct(rows, col, lo, hi) ==
    LET a == IF lo # Null
             THEN SelectSeq(rows, LAMBDA r : PctGe(r[col], lo)) ELSE rows
    IN  IF hi # Null THEN SelectSeq(a, LAMBDA r : PctLe(r[col], hi)) ELSE a

\* Mutant of dropna_sales: the rows without sales are kept.
dropna_sales_kept(rows) == rows

\* filtered.dropna(subset=["sales"])
dropna_sales(rows) == SelectSeq(rows, LAMBDA r : r.sales # Null)

\* Lines 96-135, in the order of the script.
ApplyFilters(rows, b) ==
    LET f1 == FilterOku(rows, "sales", b["sales_min"], b["sales_max"])
        f2 == FilterOku(f1, "operating_income", b["op_min"], b["op_max"])
        f3 == FilterOku(f2, "net_income", b["ni_min"], b["ni_max"])
        f4 == FilterPct(f3, "equity_ratio", b["eq_min"], b["eq_max"])
        f5 == FilterPct(f4, "op_margin", b["margin_min"], b["margin_max"])
        f6 == FilterOku(f5, "total_assets", b["ta_min"], b["ta_max"])
    IN  dropna_sales(f6)

\* sort_map: the selectbox options, named by the column each sorts on; the
\* first is the selectbox's default.
SortOptions ==
    {"sales", "operating_income", "net_income", "equity_ratio", "op_margin",
     "total_assets"}
DefaultSort == "sales"

\* Mutant of SortDesc: the rows stay in the order of the snapshot.
SortDesc_unsorted(rows, col) == rows

\* sort_values(key, ascending=False, na_position="last"): descending, rows
\* of equal key in their previous order, NaN after every value. Null is
\* below every value of the model, so the integer order puts it last.
RECURSIVE SortDesc(_, _)
SortDesc(rows, col) ==
    IF rows = <<>> THEN <<>>
    ELSE LET i == CHOOSE j \in 1..Len(rows) :
                      /\ \A k \in 1..Len(rows) : rows[k][col] <= rows[j][col]
                      /\ \A k \in 1..(j - 1) : rows[k][col] < rows[j][col]
             rest == [k \in 1..(Len(rows) - 1) |->
                          IF k < i THEN rows[k] ELSE rows[k + 1]]
         IN  <<rows[i]>> \o SortDesc(rest, col)

NoBounds == [k \in BoundKeys |-> Null]

\* One run of the script with the widgets at b and so.
ScreeningPage(b, so) ==
    LET q == get_screening_data
    IN  IF q.outcome # "ok"
        THEN [status |-> q.outcome, snapshot |-> <<>>, result |-> <<>>]
        ELSE IF q.rows = <<>>
        THEN [status |-> "no_data", snapshot |-> <<>>, result |-> <<>>]
        ELSE LET data == [i \in 1..Len(q.rows) |-> Normalize(q.rows[i])]
                 filtered == ApplyFilters(data, b)
             IN  IF filtered # <<>>
                 THEN [status |-> "results", snapshot |-> data,
                       result |-> SortDesc(filtered, so)]
                 ELSE [status |-> "no_match", snapshot |-> data,
                       result |-> <<>>]

\* Mutant of SqlVerbs: the statements of an operation include a DELETE.
SqlVerbs_with_delete(op) == {"SELECT", "DELETE"}

\* The kinds of SQL statement each data-access function executes, read off
\* its SQL text: every one is a SELECT (get_screening_data's a WITH ...
\* SELECT), and all arguments are bound parameters.
SqlVerbs(op) ==
    CASE op = "get_db_stats" -> {"SELECT"}
      [] op = "get_company_list" -> {"SELECT"}
      [] op = "search_companies" -> {"SELECT"}
      [] op = "get_company_documents" -> {"SELECT"}
      [] op = "get_key_financials" -> {"SELECT"}
      [] op = "get_financial_details" -> {"SELECT"}
      [] op = "get_company_text_blocks" -> {"SELECT"}
      [] op = "get_company_info" -> {"SELECT"}
      [] op = "get_multi_company_financials" -> {"SELECT"}
      [] op = "get_screening_data" -> {"SELECT"}
      [] op = "get_text_block_sections" -> {"SELECT"}
      [] op = "search_text_blocks" -> {"SELECT"}
      [] op = "get_recent_documents" -> {"SELECT"}

\* The call ran a statement that is not a SELECT. (The connection is opened
\* read-write: nothing but the statements keeps the store from changing.)
Writes(op, q) == q.acquired = 1 /\ SqlVerbs(op) \ {"SELECT"} # {}

\* The store after a call: a statement other than a SELECT may change it,
\* here by deleting the rows.
StoreAfter(written) ==
    /\ kf' = IF written THEN {} ELSE kf
    /\ companies' = IF written THEN {} ELSE companies
    /\ tb' = IF written THEN {} ELSE tb

\* The connection accounting of one data-access call, and its effect on
\* the store.
Account(op, q) ==
    /\ StoreAfter(Writes(op, q))
    /\ openConns' = openConns + q.acquired - q.released
    /\ lastCall' = [op |-> op, outcome |-> q.outcome,
                    peak |-> openConns + q.acquired]

\* The run that follows every interaction. The sort selectbox exists only
\* in a run that shows results; a widget that is not drawn loses its state.
RunScreening(b, so) ==
    \E page \in {ScreeningPage(b, so)} :
        /\ scr' = page
        /\ bounds' = b
        /\ sort_option' = IF page.status = "results" THEN so ELSE DefaultSort
        /\ Account("get_screening_data", get_screening_data)
        /\ UNCHANGED <<dbFile, schema, compareVars>>
        /\ UNCHANGED <<callVars, cacheVars>>

WidgetsDrawn == scr.status \in {"results", "no_match"}

\* How many of the 12 widgets the model lets be filled at once.
MaxSetBounds == 2

\* The values typed into a widget, in tenths (of an oku-yen or a percent).
BoundValues(k) ==
    IF k \in {"sales_min", "sales_max"} THEN {5, 12}
    ELSE IF k \in OkuBounds THEN {1}
    ELSE {100, 500}

OpenScreening == RunScreening(bounds, sort_option)

SetBound ==
    /\ WidgetsDrawn
    /\ \E k \in BoundKeys : \E v \in BoundValues(k) \cup {Null} :
          LET b == [bounds EXCEPT ![k] = v]
          IN  /\ v # bounds[k]
              /\ Cardinality({x \in BoundKeys : b[x] # Null}) <= MaxSetBounds
              /\ RunScreening(b, sort_option)

SetSort ==
    /\ scr.status = "results"
    /\ \E so \in SortOptions \ {sort_option} : RunScreening(bounds, so)

(***************************************************************************)
(* Comparison page (pages/03_Compare.py)                                   *)
(***************************************************************************)

\* The multiselect's max_selections.
max_selections == 5

\* An option of the multiselect: the label "<sec_code> - <filer_name>" of a
\* row of the company list, as the pair it is built from.
Label(c) == <<c.sec_code, c.filer_name>>

\* options[label]
options(label) == label[1]

\* Mutant of MultiCompanyRows: only the first parameter is matched.
MultiCompanyRows_first_only(sec_codes) ==
    {v \in kf : sec_codes # <<>> /\ v.sec_code = sec_codes[1]}

\* The statement of get_multi_company_financials: the rows of the view whose
\* sec_code is one of the bound parameters.
MultiCompanyRows(sec_codes) == {v \in kf : v.sec_code \in SeqToSet(sec_codes)}

\* Lines 54-56: if any fetched row is consolidated, keep the consolidated
\* rows of the whole frame.
ConsolidatedFilter(all_fin) ==
    IF \E r \in all_fin : r.is_consolidated = 1
    THEN {r \in all_fin : r.is_consolidated = 1}
    ELSE all_fin

\* sort_values("period_end", ascending=False).iloc[0]
LatestRow(company_fin) ==
    CHOOSE r \in company_fin :
        \A o \in company_fin : o.period_end <= r.period_end

\* Lines 63-68: one latest row per selected code that has rows left.
RECURSIVE LatestData(_, _)
LatestData(selected_codes, all_fin) ==
    IF selected_codes = <<>> THEN <<>>
    ELSE LET company_fin ==
                 {r \in all_fin : r.sec_code = Head(selected_codes)}
         IN  (IF company_fin = {} THEN <<>> ELSE <<LatestRow(company_fin)>>)
                 \o LatestData(Tail(selected_codes), all_fin)

\* The placeholder "-" of a missing table cell.
Dash == 0 - 2147483646

\* f"{val / 1e8:,.1f}" in tenths of an oku-yen, or "-" when val is missing.
FormatCell(val) == IF val # Null THEN RoundOku(val) ELSE Dash

TableRows == {"filer_name", "period_end"} \cup MoneyCols

\* Lines 88-102: each table row is a dict keyed by the company's filer_name,
\* so the data columns are the distinct names in order of first appearance
\* and a later company of the same name overwrites the earlier one.
TableColumns(latest_data) ==
    LET firsts == {i \in 1..Len(latest_data) :
                      \A j \in 1..(i - 1) :
                          latest_data[j].filer_name # latest_data[i].filer_name}
        Nth(n) == CHOOSE i \in firsts :
                      Cardinality({j \in firsts : j < i}) = n - 1
    IN  [n \in 1..Cardinality(firsts) |-> latest_data[Nth(n)].filer_name]

TableCell(latest_data, name, col) ==
    LET last == CHOOSE i \in 1..Len(latest_data) :
                    /\ latest_data[i].filer_name = name
                    /\ \A j \in (i + 1)..Len(latest_data) :
                          latest_data[j].filer_name # name
        val == latest_data[last][col]
    IN  IF col \in {"filer_name", "period_end"} THEN val ELSE FormatCell(val)

compare_display(latest_data) ==
    [col \in TableRows |->
        [name \in SeqToSet(TableColumns(latest_data)) |->
            TableCell(latest_data, name, col)]]

\* The overlay selectbox, by the column each option plots.
ChartMetrics == MoneyCols

\* company_fin.sort_values("period_end")
RECURSIVE SortByPeriod(_)
SortByPeriod(rows) ==
    IF rows = {} THEN <<>>
    ELSE LET first == CHOOSE r \in rows :
                          \A o \in rows : r.period_end <= o.period_end
         IN  <<first>> \o SortByPeriod(rows \ {first})

\* Lines 134-146: one trace per selected code that has rows, its points in
\* yen (the page plots yen / 1e8).
RECURSIVE Overlay(_, _, _)
Overlay(selected_codes, all_fin, col) ==
    IF selected_codes = <<>> THEN <<>>
    ELSE LET company_fin ==
                 SortByPeriod({r \in all_fin :
                                  r.sec_code = Head(selected_codes)})
             trace ==
                 [code |-> Head(selected_codes),
                  name |-> company_fin[1].filer_name,
                  points |-> [i \in 1..Len(company_fin) |->
                                 <<company_fin[i].period_end,
                                   company_fin[i][col]>>]]
         IN  (IF company_fin = <<>> THEN <<>> ELSE <<trace>>)
                 \o Overlay(Tail(selected_codes), all_fin, col)

radar_metrics ==
    <<"sales", "operating_income", "net_income", "total_assets",
      "net_assets", "operating_cf">>

\* d.get(metric, 0) or 0. A column that is NULL in every fetched row is read
\* as an object column of None, and `None or 0` is 0; a NULL in a column
\* that has numbers is the float NaN, which is truthy and stays NaN (Null).
RadarValue(d, metric, fetched) ==
    IF d[metric] = Null /\ \A r \in fetched : r[metric] = Null
    THEN 0
    ELSE d[metric]

\* Python's a > b on floats: False when either side is NaN.
PyGt(a, b) == a # Null /\ b # Null /\ a > b

\* Python's max(list): the first item, replaced by each later item that
\* compares greater.
RECURSIVE PyMax(_, _)
PyMax(best, rest) ==
    IF rest = <<>> THEN best
    ELSE PyMax(IF PyGt(Head(rest), best) THEN Head(rest) ELSE best,
               Tail(rest))

\* Lines 173-176: max_vals[metric]
MaxVal(latest_data, metric, fetched) ==
    LET vals == [i \in 1..Len(latest_data) |->
                    IF RadarValue(latest_data[i], metric, fetched) = Null
                    THEN Null
                    ELSE Abs(RadarValue(latest_data[i], metric, fetched))]
        top == PyMax(Head(vals), Tail(vals))
    IN  IF PyGt(top, 0) THEN top ELSE 1

\* max_vals, by the index of the metric in radar_metrics.
MaxVals(latest_data, fetched) ==
    [m \in 1..Len(radar_metrics) |->
        MaxVal(latest_data, radar_metrics[m], fetched)]

\* Lines 178-194: one polygon per latest row: the six normalized values and
\* the first again to close it. A value is the fraction num / den; a NaN
\* value has num = Null.
RadarTrace(d, max_vals, fetched) ==
    LET values == [m \in 1..Len(radar_metrics) |->
                      [num |-> RadarValue(d, radar_metrics[m], fetched),
                       den |-> max_vals[m]]]
    IN  [name |-> <<d.sec_code, d.filer_name>>,
         r |-> values \o <<values[1]>>,
         theta |-> radar_metrics \o <<radar_metrics[1]>>]

\* Mutant of RadarShown: one company is enough for the radar.
RadarShown_single(latest_data) == Len(latest_data) >= 1

\* Line 164: if latest_data and len(latest_data) >= 2
RadarShown(latest_data) == Len(latest_data) >= 2

StoppedCompare(status, codes) ==
    [status |-> status, selected_codes |-> codes, latest_data |-> <<>>,
     table_columns |-> <<>>, table |-> <<>>, overlay |-> <<>>,
     radar_status |-> "none", radar |-> <<>>]

\* One run of the script with the widgets at labels and metric.
ComparePage(labels, metric) ==
    LET list == get_company_list(companies)
        selected_codes == [i \in 1..Len(labels) |-> options(labels[i])]
        q == get_multi_company_financials(selected_codes,
                                          MultiCompanyRows(selected_codes))
        all_fin == ConsolidatedFilter(q.rows)
        latest_data == LatestData(selected_codes, all_fin)
        max_vals == MaxVals(latest_data, q.rows)
    IN  IF list.outcome # "ok" THEN StoppedCompare(list.outcome, <<>>)
        ELSE IF list.rows = {} THEN StoppedCompare("no_companies", <<>>)
        ELSE IF labels = <<>> THEN StoppedCompare("no_selection", <<>>)
        ELSE IF q.outcome # "ok" THEN StoppedCompare(q.outcome, selected_codes)
        ELSE IF q.rows = {}
        THEN StoppedCompare("no_financials", selected_codes)
        ELSE [status |-> "shown",
              selected_codes |-> selected_codes,
              latest_data |-> latest_data,
              table_columns |-> TableColumns(latest_data),
              table |-> IF latest_data # <<>>
                        THEN compare_display(latest_data) ELSE <<>>,
              overlay |-> Overlay(selected_codes, all_fin, metric),
              radar_status |-> IF RadarShown(latest_data)
                               THEN "plotted" ELSE "insufficient",
              radar |-> IF RadarShown(latest_data)
                        THEN [i \in 1..Len(latest_data) |->
                                 RadarTrace(latest_data[i], max_vals, q.rows)]
                        ELSE <<>>]

\* The calls one run makes, in order, and their connection accounting.
CompareCalls(labels) ==
    LET list == get_company_list(companies)
        codes == [i \in 1..Len(labels) |-> options(labels[i])]
    IN  IF list.outcome = "ok" /\ list.rows # {} /\ labels # <<>>
        THEN <<[op |-> "get_company_list", q |-> list],
               [op |-> "get_multi_company_financials",
                q |-> get_multi_company_financials(codes, {})]>>
        ELSE <<[op |-> "get_company_list", q |-> list]>>

WritesAny(calls) ==
    \E i \in 1..Len(calls) : Writes(calls[i].op, calls[i].q)

RECURSIVE AccountAll(_, _, _)
AccountAll(calls, open, last) ==
    IF calls = <<>>
    THEN openConns' = open /\ lastCall' = last
    ELSE LET c == Head(calls)
         IN  AccountAll(Tail(calls), open + c.q.acquired - c.q.released,
                        [op |-> c.op, outcome |-> c.q.outcome,
                         peak |-> open + c.q.acquired])

\* The multiselect is drawn once the company list is there, the overlay
\* selectbox only in a run that shows the comparison; a widget that is not
\* drawn loses its state.
RunCompare(labels, metric) ==
    \E page \in {ComparePage(labels, metric)} :
        /\ cmp' = page
        /\ selected_labels' =
              IF page.status \in {"stop", "raise", "no_companies"}
              THEN <<>> ELSE labels
        /\ chart_metric' = IF page.status = "shown" THEN metric ELSE "sales"
        /\ AccountAll(CompareCalls(labels), openConns, lastCall)
        /\ StoreAfter(WritesAny(CompareCalls(labels)))
        /\ UNCHANGED <<dbFile, schema, screenVars>>
        /\ UNCHANGED <<callVars, cacheVars>>

MultiselectDrawn ==
    cmp.status \in {"no_selection", "no_financials", "shown"}

\* How many companies the model lets be selected at once.
MaxSelected == 2

OpenCompare == RunCompare(selected_labels, chart_metric)

SelectCompany ==
    /\ MultiselectDrawn
    /\ Len(selected_labels) < max_selections
    /\ Len(selected_labels) < MaxSelected
    /\ \E c \in companies :
          /\ Label(c) \notin SeqToSet(selected_labels)
          /\ RunCompare(Append(selected_labels, Label(c)), chart_metric)

DeselectCompany ==
    /\ MultiselectDrawn
    /\ \E i \in 1..Len(selected_labels) :
          RunCompare([k \in 1..(Len(selected_labels) - 1) |->
                         IF k < i THEN selected_labels[k]
                         ELSE selected_labels[k + 1]],
                     chart_metric)

SetChartMetric ==
    /\ cmp.status = "shown"
    /\ \E m \in ChartMetrics \ {chart_metric} : RunCompare(selected_labels, m)

(***************************************************************************)
(* Initial states and specifications                                       *)
(***************************************************************************)

NameOf(code) ==
    IF code = 6758 THEN "Sony"
    ELSE IF code = 9984 THEN "SoftBank" ELSE "Toyota"

\* Stores of the screening specification: each of two companies has no row
\* or one consolidated row.
ScreenStores ==
    {{MkRow(6758, NameOf(6758), 20240331, 1, pa) : pa \in a}
        \cup {MkRow(7203, NameOf(7203), 20240331, 1, pb) : pb \in b} :
     a \in {{}} \cup {{x} : x \in Profiles},
     b \in {{}} \cup {{x} : x \in Profiles}}

\* Stores of the snapshot specification: up to MaxRows rows over three
\* sec_codes (one of them NULL), two periods, both consolidation flags.
MaxRows == 3

SnapshotRows ==
    {MkRow(c, NameOf(c), pe, ic, p) :
        c \in {6758, 7203, Null}, pe \in PeriodEnds, ic \in {0, 1},
        p \in {x \in Profiles : x.sales \in {Null, 120000000}}}

RECURSIVE RowSets(_, _)
RowSets(candidates, n) ==
    IF n = 0 THEN {{}}
    ELSE LET smaller == RowSets(candidates, n - 1)
         IN  smaller \cup
             {s \cup {r} : s \in smaller,
                           r \in {c \in candidates : TRUE}}

SnapshotStores ==
    {s \in RowSets(SnapshotRows, MaxRows) : KeyUnique(s)}

IdleCall == [op |-> "none", outcome |-> "ok", peak |-> 0]
IdleRequest == [op |-> "none"]
IdleReturn == [outcome |-> "none", value |-> NoValue, error |-> "none"]
IdlePage == [status |-> "idle", snapshot |-> <<>>, result |-> <<>>]
IdleCompare == StoppedCompare("idle", <<>>)

InitConn(files, schemas) ==
    /\ dbFile \in files
    /\ schema \in schemas
    /\ openConns = 0
    /\ lastCall = IdleCall

InitScreenWidgets ==
    /\ bounds = NoBounds
    /\ sort_option = DefaultSort
    /\ scr = IdlePage

InitCompareWidgets ==
    /\ selected_labels = <<>>
    /\ chart_metric = "sales"
    /\ cmp = IdleCompare

\* No call made yet, no text block, an empty cache at time 0.
InitCalls == request = IdleRequest /\ returned = IdleReturn
InitText == tb = {}
InitCache ==
    now = 0 /\ cache = [fn |-> "none", entries |-> {}] /\ changed_at = 0

\* Screening: every store of ScreenStores behind a usable database, and one
\* missing database and one database without the view.
InitScreen ==
    /\ \/ InitConn({"present"}, {FullSchema})
       \/ InitConn({"absent"}, {FullSchema})
       \/ InitConn({"present"}, {FullSchema \ {"v_key_financials"}})
    /\ kf \in ScreenStores
    /\ companies = {}
    /\ InitScreenWidgets
    /\ InitCompareWidgets
    /\ InitCalls /\ InitText /\ InitCache

\* Storage access: every database state and every schema, each function
\* called in any order.
InitStorage ==
    /\ InitConn(DbFileStates, SUBSET SchemaObjects)
    /\ kf = {}
    /\ companies = {}
    /\ InitScreenWidgets
    /\ InitCompareWidgets
    /\ InitCalls /\ InitText /\ InitCache

Call(op, q) ==
    /\ Account(op, q)
    /\ request' = [op |-> op]
    /\ returned' = Returned(q)
    /\ UNCHANGED <<dbFile, schema, screenVars, compareVars>>
    /\ UNCHANGED cacheVars

CallGetDbStats == Call("get_db_stats", get_db_stats)
CallGetCompanyList == Call("get_company_list", get_company_list(SomeRows))
CallSearchCompanies ==
    \E blank \in BOOLEAN :
        Call("search_companies", search_companies(blank, SomeRows))
CallGetCompanyDocuments ==
    Call("get_company_documents", get_company_documents(SomeRows))
CallGetKeyFinancials == Call("get_key_financials", get_key_financials(SomeRows))
CallGetFinancialDetails ==
    Call("get_financial_details", get_financial_details(SomeRows))
CallGetCompanyTextBlocks ==
    Call("get_company_text_blocks", get_company_text_blocks(SomeRows))
CallGetCompanyInfo == Call("get_company_info", get_company_info(SomeRows))
CallGetMultiCompanyFinancials ==
    \E codes \in {<<>>, <<7203>>, <<7203, 6758>>} :
        Call("get_multi_company_financials",
             get_multi_company_financials(codes, SomeRows))
CallGetScreeningData == Call("get_screening_data", get_screening_data)
CallGetTextBlockSections ==
    Call("get_text_block_sections", get_text_block_sections(SomeRows))
CallSearchTextBlocks == Call("search_text_blocks", search_text_blocks(SomeRows))
CallGetRecentDocuments ==
    Call("get_recent_documents", get_recent_documents(SomeRows))

\* app.py lines 92-98, the start of the main view: st.stop() inside
\* get_db_stats is not an Exception and ends the run there; an exception is
\* caught, reported as a connection error, and the run is stopped.
AppLoadStats ==
    LET q == get_db_stats
        r == Returned(q)
    IN  /\ Account("get_db_stats", q)
        /\ request' = [op |-> "app"]
        /\ returned' = IF q.outcome = "raise"
                       THEN [r EXCEPT !.outcome = "stop",
                                      !.error = "database connection error"]
                       ELSE r
        /\ UNCHANGED <<dbFile, schema, screenVars, compareVars>>
        /\ UNCHANGED cacheVars

NextStorage ==
    \/ AppLoadStats
    \/ CallGetDbStats
    \/ CallGetCompanyList
    \/ CallSearchCompanies
    \/ CallGetCompanyDocuments
    \/ CallGetKeyFinancials
    \/ CallGetFinancialDetails
    \/ CallGetCompanyTextBlocks
    \/ CallGetCompanyInfo
    \/ CallGetMultiCompanyFinancials
    \/ CallGetScreeningData
    \/ CallGetTextBlockSections
    \/ CallSearchTextBlocks
    \/ CallGetRecentDocuments

SpecStorage == InitStorage /\ [][NextStorage]_vars

\* Comparison: a company list in which 7203 appears under two names, and
\* per company a history of rows.
CompareCompanies ==
    {[sec_code |-> 6758, filer_name |-> "Sony"],
     [sec_code |-> 7203, filer_name |-> "Toyota"],
     [sec_code |-> 7203, filer_name |-> "Toyota Motor"],
     [sec_code |-> 9984, filer_name |-> "SoftBank"]}

ProfileOf(sales) == CHOOSE p \in Profiles : p.sales = sales

\* 6758 reports consolidated figures, 7203 either kind, 9984 has no sales.
Histories6758 ==
    {{},
     {MkRow(6758, NameOf(6758), 20240331, 1, ProfileOf(120000000))},
     {MkRow(6758, NameOf(6758), 20240331, 1, ProfileOf(123000000))},
     {MkRow(6758, NameOf(6758), 20230331, 1, ProfileOf(50000000)),
      MkRow(6758, NameOf(6758), 20240331, 1, ProfileOf(123000000))},
     {MkRow(6758, NameOf(6758), 20230331, 1, ProfileOf(120000000)),
      MkRow(6758, NameOf(6758), 20240331, 0, ProfileOf(50000000))}}

Histories7203 ==
    {{},
     {MkRow(7203, NameOf(7203), 20240331, 0, ProfileOf(120000000))},
     {MkRow(7203, NameOf(7203), 20230331, 0, ProfileOf(50000000)),
      MkRow(7203, NameOf(7203), 20240331, 0, ProfileOf(123000000))},
     {MkRow(7203, NameOf(7203), 20240331, 1, ProfileOf(Null))},
     {MkRow(7203, NameOf(7203), 20240331, 1, ProfileOf(123000000))}}

Histories9984 ==
    {{}, {MkRow(9984, NameOf(9984), 20240331, 1, ProfileOf(Null))}}

CompareStores ==
    {a \cup b \cup c :
        a \in Histories6758, b \in Histories7203, c \in Histories9984}

InitCompare ==
    /\ \/ /\ InitConn({"present"}, {FullSchema})
          /\ companies \in {CompareCompanies, {}}
       \/ /\ InitConn({"absent"}, {FullSchema})
          /\ companies = CompareCompanies
       \/ /\ InitConn({"present"}, {FullSchema \ {"v_key_financials"}})
          /\ companies = CompareCompanies
    /\ kf \in CompareStores
    /\ InitScreenWidgets
    /\ InitCompareWidgets
    /\ InitCalls /\ InitText /\ InitCache

NextCompare ==
    OpenCompare \/ SelectCompany \/ DeselectCompany \/ SetChartMetric

SpecCompare == InitCompare /\ [][NextCompare]_vars

NextScreen == OpenScreening \/ SetBound \/ SetSort

SpecScreen == InitScreen /\ [][NextScreen]_vars

InitSnapshot ==
    /\ InitConn({"present"}, {FullSchema})
    /\ kf \in SnapshotStores
    /\ companies = {}
    /\ InitScreenWidgets
    /\ InitCompareWidgets
    /\ InitCalls /\ InitText /\ InitCache

NextSnapshot == OpenScreening

SpecSnapshot == InitSnapshot /\ [][NextSnapshot]_vars

(***************************************************************************)
(* get_multi_company_financials on its own                                 *)
(***************************************************************************)

\* The statement lines 237-242 build for a list of identifiers: one "?" per
\* identifier in the IN (...) clause, and the identifiers as parameters.
multi_statement(sec_codes) ==
    [objects |-> {"v_key_financials"},
     placeholders |-> Len(sec_codes),
     params |-> sec_codes]

\* sqlite3 runs a statement only if it is given as many parameters as the
\* statement has placeholders.
Binds(stmt) == stmt.placeholders = Len(stmt.params)

\* How many identifiers the model passes at once.
MaxCodes == 2

\* The identifiers passed: three that may be in the store and one that is
\* not, in any order, repetitions included.
RECURSIVE CodeLists(_)
CodeLists(n) ==
    IF n = 0 THEN {<<>>}
    ELSE LET shorter == CodeLists(n - 1)
         IN  shorter \cup
             {Append(l, c) : l \in shorter, c \in {6758, 7203, 9984, 1301}}

CallMulti ==
    \E sec_codes \in CodeLists(MaxCodes) :
        LET stmt == multi_statement(sec_codes)
            q == get_multi_company_financials(
                     sec_codes,
                     IF Binds(stmt) THEN MultiCompanyRows(stmt.params)
                     ELSE {})
        IN  /\ Account("get_multi_company_financials", q)
            /\ request' = [op |-> "get_multi_company_financials",
                           sec_codes |-> sec_codes]
            /\ returned' = Returned(q) @@
                               [issued |-> IF q.acquired = 1
                                           THEN <<stmt>> ELSE <<>>]
            /\ UNCHANGED <<dbFile, schema, screenVars, compareVars,
                           cacheVars>>

InitMulti ==
    /\ \/ InitConn({"present"}, {FullSchema})
       \/ InitConn({"absent"}, {FullSchema})
       \/ InitConn({"present"}, {FullSchema \ {"v_key_financials"}})
    /\ kf \in CompareStores
    /\ companies = {}
    /\ InitScreenWidgets
    /\ InitCompareWidgets
    /\ InitCalls /\ InitText /\ InitCache

NextMulti == CallMulti

SpecMulti == InitMulti /\ [][NextMulti]_vars

(***************************************************************************)
(* Text blocks: search_text_blocks                                         *)
(***************************************************************************)

\* A text is the sequence of its characters, each a string; "e-acute" and
\* "E-acute" are the two cases of a letter outside ASCII. NULL text_content
\* is a text of one token that is not a character.
NullText == <<"NULL">>

\* SQLite's LIKE folds the case of the ASCII letters only; Python's
\* re.IGNORECASE folds the case of every letter.
AsciiFold(ch) ==
    IF ch = "A" THEN "a" ELSE IF ch = "B" THEN "b" ELSE ch

UnicodeFold(ch) == IF ch = "E-acute" THEN "e-acute" ELSE AsciiFold(ch)

\* text LIKE pattern, without an ESCAPE clause: "%" stands for any run of
\* characters, "_" for any one character, another character for itself
\* in either ASCII case.
RECURSIVE LikeMatch(_, _)
LikeMatch(pattern, text) ==
    IF pattern = <<>> THEN text = <<>>
    ELSE IF Head(pattern) = "%"
    THEN \/ LikeMatch(Tail(pattern), text)
         \/ text # <<>> /\ LikeMatch(pattern, Tail(text))
    ELSE /\ text # <<>>
         /\ \/ Head(pattern) = "_"
            \/ AsciiFold(Head(pattern)) = AsciiFold(Head(text))
         /\ LikeMatch(Tail(pattern), Tail(text))

\* f"%{keyword}%"
like_pattern(keyword) == <<"%">> \o keyword \o <<"%">>

\* The WHERE clause lines 294-310 build: "1=1" and one condition per
\* argument that is truthy. None and "" are not; an argument that is not
\* given is Null (sec_code, period_end), "" (section_label) or the empty
\* text (keyword). A NULL column satisfies no condition.
Where(r, a) ==
    /\ a.sec_code # Null => r.sec_code = a.sec_code
    /\ a.section_label # "" => r.section_label = a.section_label
    /\ a.keyword # <<>> =>
           /\ r.text_content # NullText
           /\ LikeMatch(like_pattern(a.keyword), r.text_content)
    /\ a.period_end # Null => r.period_end = a.period_end

\* ORDER BY period_end DESC, sec_code: r1 must come before r2. NULL is the
\* least value of SQLite's order, as Null is of the model's.
OrderedBefore(r1, r2) ==
    \/ r1.period_end > r2.period_end
    \/ r1.period_end = r2.period_end /\ r1.sec_code < r2.sec_code

\* The orders in which the statement may deliver a set of rows: any order
\* that respects ORDER BY; rows equal on both keys come in either order.
RECURSIVE SortedOrders(_)
SortedOrders(rows) ==
    IF rows = {} THEN {<<>>}
    ELSE UNION {{<<r>> \o t : t \in SortedOrders(rows \ {r})} :
                r \in {x \in rows : \A o \in rows : ~ OrderedBefore(o, x)}}

\* LIMIT ?, for a limit that is not negative.
Limit(rows, limit) ==
    SubSeq(rows, 1, IF limit < Len(rows) THEN limit ELSE Len(rows))

\* How many text blocks a store of the model has at most, and the largest
\* limit passed.
MaxBlocks == 3
MaxLimit == 2

\* The text blocks a store is made of: two of them equal on both keys of
\* the order, one without period_end, sec_code and text.
TextBlockRows ==
    {[doc_id |-> 1, sec_code |-> 7203, section_label |-> "risk",
      period_end |-> 20240331, text_content |-> <<"a", "b">>],
     [doc_id |-> 2, sec_code |-> 7203, section_label |-> "business",
      period_end |-> 20240331, text_content |-> <<"A", "_">>],
     [doc_id |-> 3, sec_code |-> 6758, section_label |-> "risk",
      period_end |-> 20240331, text_content |-> <<"5", "%">>],
     [doc_id |-> 4, sec_code |-> 6758, section_label |-> "risk",
      period_end |-> 20230331, text_content |-> <<"E-acute", "b">>],
     [doc_id |-> 5, sec_code |-> 7203, section_label |-> "risk",
      period_end |-> 20230331, text_content |-> <<>>],
     [doc_id |-> 6, sec_code |-> Null, section_label |-> "business",
      period_end |-> Null, text_content |-> NullText]}

TextStores == RowSets(TextBlockRows, MaxBlocks)

\* The keywords passed: none, and every text of one or two of these
\* characters.
KeywordChars == {"a", "e-acute", "%", "_"}

Keywords ==
    {<<>>} \cup {<<c>> : c \in KeywordChars}
        \cup {<<c, d>> : c \in {"a", "%"}, d \in {"b", "_"}}

SearchRequests ==
    [op : {"search_text_blocks"},
     sec_code : {Null, 7203},
     section_label : {"", "risk"},
     keyword : Keywords,
     period_end : {Null, 20240331},
     limit : 0..MaxLimit]

\* One call of search_text_blocks with the arguments of the request.
CallSearch ==
    /\ request.op = "search_text_blocks" /\ returned = IdleReturn
    /\ \E ordered \in SortedOrders({r \in tb : Where(r, request)}) :
          LET q == search_text_blocks(Limit(ordered, request.limit))
          IN  /\ Account("search_text_blocks", q)
              /\ returned' = Returned(q)
    /\ UNCHANGED <<dbFile, schema, screenVars, compareVars, request,
                   cacheVars>>

\* Every store of TextStores and every request, the call still to be made.
InitSearch ==
    /\ InitConn({"present"}, {FullSchema})
    /\ kf = {} /\ companies = {}
    /\ InitScreenWidgets
    /\ InitCompareWidgets
    /\ request \in SearchRequests /\ returned = IdleReturn
    /\ tb \in TextStores
    /\ InitCache

NextText == CallSearch

SpecText == InitSearch /\ [][NextText]_vars

(***************************************************************************)
(* Text blocks page (pages/05_TextBlocks.py): keyword highlighting         *)
(***************************************************************************)

\* str.strip(): the text without its leading and trailing blanks.
RECURSIVE strip(_)
strip(text) ==
    IF text = <<>> THEN <<>>
    ELSE IF Head(text) = " " THEN strip(Tail(text))
    ELSE IF text[Len(text)] = " " THEN strip(SubSeq(text, 1, Len(text) - 1))
    ELSE text

\* Characters that mean something in a regular expression; of the model's
\* characters, "." (any character).
RegexSpecial == {".", "\\"}

\* Mutant of re_escape: the keyword is used as the pattern unchanged.
re_escape_nothing(text) == text

\* re.escape: a backslash before every special character (and before a
\* blank).
RECURSIVE re_escape(_)
re_escape(text) ==
    IF text = <<>> THEN <<>>
    ELSE (IF Head(text) \in RegexSpecial \cup {" "}
          THEN <<"\\", Head(text)>> ELSE <<Head(text)>>)
         \o re_escape(Tail(text))

\* The pattern as the regex engine reads it: a backslash makes the next
\* character a literal, a bare "." matches any character, any other
\* character is a literal. Each element matches one character.
RECURSIVE RegexElements(_)
RegexElements(pattern) ==
    IF pattern = <<>> THEN <<>>
    ELSE IF Head(pattern) = "\\" /\ Len(pattern) >= 2
    THEN <<[kind |-> "literal", ch |-> pattern[2]]>>
         \o RegexElements(Tail(Tail(pattern)))
    ELSE IF Head(pattern) = "."
    THEN <<[kind |-> "any"]>> \o RegexElements(Tail(pattern))
    ELSE <<[kind |-> "literal", ch |-> Head(pattern)]>>
         \o RegexElements(Tail(pattern))

\* The pattern matches the text at position i, with re.IGNORECASE.
MatchesAt(elements, text, i) ==
    /\ i + Len(elements) - 1 <= Len(text)
    /\ \A j \in 1..Len(elements) :
          \/ elements[j].kind = "any"
          \/ /\ elements[j].kind = "literal"
             /\ UnicodeFold(elements[j].ch) = UnicodeFold(text[i + j - 1])

\* The opening and the closing tag of the replacement, each one token.
MarkOpen == "<mark>"
MarkClose == "</mark>"

\* re.sub(f"({pattern})", "<mark ...>\\1</mark>", text, flags=re.IGNORECASE)
\* from position i: the leftmost match is replaced by itself within the
\* tags and the scan goes on after it.
RECURSIVE re_sub(_, _, _)
re_sub(elements, text, i) ==
    IF i > Len(text) THEN <<>>
    ELSE IF elements # <<>> /\ MatchesAt(elements, text, i)
    THEN <<MarkOpen>> \o SubSeq(text, i, i + Len(elements) - 1)
         \o <<MarkClose>> \o re_sub(elements, text, i + Len(elements))
    ELSE <<text[i]>> \o re_sub(elements, text, i + 1)

\* Lines 111-123: display_text for a block's content and the keyword typed.
Highlight(content, keyword) ==
    IF strip(keyword) # <<>>
    THEN re_sub(RegexElements(re_escape(strip(keyword))), content, 1)
    ELSE content

\* The longest content and keyword of the model.
MaxContentLen == 3
MaxKeywordLen == 2

RECURSIVE Texts(_, _)
Texts(chars, n) ==
    IF n = 0 THEN {<<>>}
    ELSE LET shorter == Texts(chars, n - 1)
         IN  shorter \cup {Append(t, c) : t \in shorter, c \in chars}

HighlightRequests ==
    [op : {"highlight"},
     content : Texts({"a", "A", "b", "."}, MaxContentLen),
     keyword : Texts({"a", "b", ".", " "}, MaxKeywordLen)]

\* The expander of one block: a block without text gets a caption only.
ShowBlock ==
    /\ request.op = "highlight" /\ returned = IdleReturn
    /\ returned' = [outcome |-> "ok",
                    value |-> IF request.content # <<>>
                              THEN Highlight(request.content, request.keyword)
                              ELSE <<>>,
                    error |-> "none"]
    /\ UNCHANGED <<connVars, storeVars, screenVars, compareVars,
                   request, textVars, cacheVars>>

InitHighlight ==
    /\ InitConn({"present"}, {FullSchema})
    /\ kf = {} /\ companies = {}
    /\ InitScreenWidgets
    /\ InitCompareWidgets
    /\ request \in HighlightRequests /\ returned = IdleReturn
    /\ InitText /\ InitCache

NextHighlight == ShowBlock

SpecHighlight == InitHighlight /\ [][NextHighlight]_vars

(***************************************************************************)
(* Text blocks page: the expander of one block (preview, count, download)  *)
(***************************************************************************)

\* display_text[:15000]
display_budget == 15000

\* A long text: lead filler characters, then the characters of mid, then
\* trail filler characters. The filler is a character that is not in the
\* keyword, so no occurrence of the keyword touches it.
PaddedTexts(leads, mids, trails) == [lead : leads, mid : mids, trail : trails]

\* len(text)
PaddedLen(t) == t.lead + Len(t.mid) + t.trail

\* The length in characters of the opening tag
\* <mark style="background-color: #fff176; padding: 1px 3px;
\* border-radius: 3px;"> and of the closing tag </mark>.
MarkOpenLen == 79
MarkCloseLen == 7

\* A tag of which only a first part is left.
CutOpen == "<mark (cut)"
CutClose == "</mark (cut)"

TokenLen(token) ==
    IF token = MarkOpen THEN MarkOpenLen
    ELSE IF token = MarkClose THEN MarkCloseLen
    ELSE 1

RECURSIVE TokensLen(_)
TokensLen(tokens) ==
    IF tokens = <<>> THEN 0
    ELSE TokenLen(Head(tokens)) + TokensLen(Tail(tokens))

\* tokens[:n], n counted in characters: a tag that does not fit whole is cut.
RECURSIVE SliceTokens(_, _)
SliceTokens(tokens, n) ==
    IF tokens = <<>> \/ n <= 0 THEN <<>>
    ELSE IF TokenLen(Head(tokens)) <= n
    THEN <<Head(tokens)>>
         \o SliceTokens(Tail(tokens), n - TokenLen(Head(tokens)))
    ELSE <<IF Head(tokens) = MarkOpen THEN CutOpen ELSE CutClose>>

\* text[:n] of a long text.
Slice(t, n) ==
    LET lead == IF t.lead < n THEN t.lead ELSE n
        rest == n - lead
        left == rest - TokensLen(t.mid)
    IN  IF left >= 0
        THEN [lead |-> lead, mid |-> t.mid,
              trail |-> IF t.trail < left THEN t.trail ELSE left]
        ELSE [lead |-> lead, mid |-> SliceTokens(t.mid, rest), trail |-> 0]

\* Lines 111-123 on a long text: the filler has no occurrence.
HighlightPadded(content, keyword) ==
    [content EXCEPT !.mid = Highlight(content.mid, keyword)]

\* Lines 110-148: what the expander of a block with text shows: the first
\* display_budget characters of the highlighted text, the length of the
\* content, the notice of truncation, and the content as the download.
Expander(content, keyword) ==
    LET display_text == HighlightPadded(content, keyword)
        char_count == PaddedLen(content)
    IN  [preview |-> Slice(display_text, display_budget),
         char_count |-> char_count,
         notice |-> char_count > display_budget,
         download |-> content]

\* Contents around the display budget: an occurrence of the keyword may lie
\* well before the cut, across it, or after it.
PreviewLeads ==
    {0, display_budget - 100, display_budget - 2, display_budget}

PreviewTrails == {0, 200}

PreviewRequests ==
    [op : {"expander"},
     content : PaddedTexts(PreviewLeads,
                           Texts({"a", "b"}, MaxContentLen) \ {<<>>},
                           PreviewTrails),
     keyword : Texts({"a", "b"}, MaxKeywordLen)]

ShowExpander ==
    /\ request.op = "expander" /\ returned = IdleReturn
    /\ returned' = [outcome |-> "ok",
                    value |-> Expander(request.content, request.keyword),
                    error |-> "none"]
    /\ UNCHANGED <<connVars, storeVars, screenVars, compareVars,
                   request, textVars, cacheVars>>

InitPreview ==
    /\ InitConn({"present"}, {FullSchema})
    /\ kf = {} /\ companies = {}
    /\ InitScreenWidgets
    /\ InitCompareWidgets
    /\ request \in PreviewRequests /\ returned = IdleReturn
    /\ InitText /\ InitCache

NextPreview == ShowExpander

SpecPreview == InitPreview /\ [][NextPreview]_vars

(***************************************************************************)
(* The memoized functions (@st.cache_data)                                 *)
(***************************************************************************)

\* The ttl arguments of the three decorators, in seconds.
ttl_get_db_stats == 3600
ttl_get_company_list == 3600
ttl_get_recent_documents == 600

ttl(op) ==
    CASE op = "get_db_stats" -> ttl_get_db_stats
      [] op = "get_company_list" -> ttl_get_company_list
      [] op = "get_recent_documents" -> ttl_get_recent_documents

Memoized == {"get_db_stats", "get_company_list", "get_recent_documents"}

\* The limits get_recent_documents is called with.
RecentLimits == {1, 2}

\* The keys of a function's cache: its arguments.
CacheKeys(fn) ==
    IF fn = "get_recent_documents"
    THEN {[op |-> fn, limit |-> l] : l \in RecentLimits}
    ELSE {[op |-> fn, limit |-> Null]}

\* Mutant of Fresh: an entry never expires.
Fresh_forever(entry, t) == TRUE

\* An entry is served while less than ttl seconds have passed since it was
\* stored.
Fresh(entry, t) == t - entry.stored_at < ttl(entry.key.op)

\* ORDER BY file_date DESC over the documents; the store of the model has
\* one document per row of the company list, filed on its latest_date.
RECURSIVE SortByFileDate(_)
SortByFileDate(rows) ==
    IF rows = {} THEN <<>>
    ELSE LET first == CHOOSE r \in rows :
                          \A o \in rows : o.latest_date <= r.latest_date
         IN  <<first>> \o SortByFileDate(rows \ {first})

\* The body of a memoized function, run on the store as it is now.
Body(key) ==
    CASE key.op = "get_db_stats" -> get_db_stats
      [] key.op = "get_company_list" -> get_company_list(companies)
      [] key.op = "get_recent_documents" ->
             get_recent_documents(Limit(SortByFileDate(companies), key.limit))

\* A call of a memoized function: a fresh entry for the key is returned
\* without running the body; otherwise the body runs and, if it returns,
\* its value is stored under the key with the time. A body that raises or
\* stops the script stores nothing.
cached(key) ==
    LET hits == {e \in cache.entries : e.key = key /\ Fresh(e, now)}
        others == {e \in cache.entries : e.key # key}
        q == Body(key)
    IN  IF hits # {}
        THEN LET e == CHOOSE h \in hits : TRUE
             IN  [q |-> NoQuery(e.value), hit |-> TRUE,
                  age |-> now - e.stored_at, entries |-> cache.entries]
        ELSE [q |-> q, hit |-> FALSE, age |-> 0,
              entries |-> IF q.outcome = "ok"
                          THEN others \cup {[key |-> key, value |-> q.rows,
                                             stored_at |-> now]}
                          ELSE others]

\* The latest time of the model and the steps of its clock.
MaxTime == 3900
TickSteps == {300, 3300}

\* The company lists the ingestion pipeline moves the store between.
CacheStores ==
    {{},
     {[sec_code |-> 6758, filer_name |-> "Sony", latest_date |-> 20240625],
      [sec_code |-> 7203, filer_name |-> "Toyota",
       latest_date |-> 20240620]},
     {[sec_code |-> 6758, filer_name |-> "Sony", latest_date |-> 20240625],
      [sec_code |-> 7203, filer_name |-> "Toyota", latest_date |-> 20240620],
      [sec_code |-> 9984, filer_name |-> "SoftBank",
       latest_date |-> 20240701]}}

\* Each memoized function has a cache of its own; a behaviour follows the
\* function named in cache.fn.
CallCached ==
    \E key \in CacheKeys(cache.fn) :
        \E c \in {cached(key)} :
            /\ Account(key.op, c.q)
            /\ request' = [op |-> key.op, limit |-> key.limit, at |-> now]
            /\ returned' = Returned(c.q) @@ [hit |-> c.hit, age |-> c.age]
            /\ cache' = [cache EXCEPT !.entries = c.entries]
            /\ UNCHANGED <<dbFile, schema, screenVars, compareVars, now,
                           changed_at>>

\* Time passes. An expired entry is never served again; the model drops it
\* as it expires.
Tick ==
    \E d \in TickSteps :
        /\ now + d <= MaxTime
        /\ now' = now + d
        /\ cache' = [cache EXCEPT
                         !.entries = {e \in cache.entries : Fresh(e, now + d)}]
        /\ UNCHANGED <<connVars, storeVars, screenVars, compareVars,
                       callVars, textVars, changed_at>>

\* The ingestion pipeline, which is not part of the program, changes the
\* store.
Ingest ==
    \E store \in CacheStores \ {companies} :
        /\ companies' = store
        /\ changed_at' = now
        /\ UNCHANGED <<connVars, kf, screenVars, compareVars, callVars,
                       textVars, now, cache>>

InitCached ==
    /\ \/ InitConn({"present"}, {FullSchema})
       \/ InitConn({"present"}, {FullSchema \ {"documents"}})
       \/ InitConn({"absent"}, {FullSchema})
    /\ kf = {}
    /\ companies \in CacheStores
    /\ InitScreenWidgets
    /\ InitCompareWidgets
    /\ InitCalls /\ InitText
    /\ now = 0 /\ changed_at = 0
    /\ cache \in [fn : Memoized, entries : {{}}]

NextCached == CallCached \/ Tick \/ Ingest

SpecCached == InitCached /\ [][NextCached]_vars

(***************************************************************************)
(* Company page (pages/02_Company.py): the company selection               *)
(***************************************************************************)

\* ORDER BY sec_code over the rows of the company list.
RECURSIVE SortCompanies(_)
SortCompanies(rows) ==
    IF rows = {} THEN <<>>
    ELSE LET first == CHOOSE r \in rows :
                          \A o \in rows : r.sec_code <= o.sec_code
         IN  <<first>> \o SortCompanies(rows \ {first})

\* The statement of get_company_info: the documents of the code grouped
\* into one row, with the filer_name of any one of them; no document, no
\* row. Each element is a possible result: the dict of the row, or {}.
CompanyInfoRows(sec_code) ==
    IF \E c \in companies : c.sec_code = sec_code
    THEN {{[sec_code |-> sec_code, filer_name |-> c.filer_name]} :
             c \in {x \in companies : x.sec_code = sec_code}}
    ELSE {{}}

\* Lines 41-46: the index of the first option whose code is the query
\* parameter (counted from 1 here), the first option if there is none or
\* no parameter was given (Null).
default_idx(option_list, sec_code_param) ==
    IF /\ sec_code_param # Null
       /\ \E i \in 1..Len(option_list) :
              option_list[i].sec_code = sec_code_param
    THEN CHOOSE i \in 1..Len(option_list) :
             /\ option_list[i].sec_code = sec_code_param
             /\ \A j \in 1..(i - 1) :
                    option_list[j].sec_code # sec_code_param
    ELSE 1

StoppedCompany(status, calls) ==
    [status |-> status, sec_code |-> Null, info |-> {}, calls |-> calls,
     entries |-> cache.entries]

\* The first run of the script in a session opened with the query
\* parameter: the company list (memoized), the selectbox at default_idx,
\* get_company_info for its code, then the tabs with their four fetches.
CompanyPage(sec_code_param, info_rows) ==
    LET list == cached([op |-> "get_company_list", limit |-> Null])
        listCall == <<[op |-> "get_company_list", q |-> list.q]>>
        option_list == SortCompanies(list.q.rows)
        idx == default_idx(option_list, sec_code_param)
        sec_code == option_list[idx].sec_code
        infoq == get_company_info(info_rows)
        infoCall == <<[op |-> "get_company_info", q |-> infoq]>>
        tabs == <<[op |-> "get_key_financials",
                   q |-> get_key_financials(SomeRows)],
                  [op |-> "get_key_financials",
                   q |-> get_key_financials(SomeRows)],
                  [op |-> "get_company_text_blocks",
                   q |-> get_company_text_blocks(SomeRows)],
                  [op |-> "get_company_documents",
                   q |-> get_company_documents(SomeRows)]>>
    IN  IF list.q.outcome # "ok"
        THEN [StoppedCompany(list.q.outcome, listCall)
                 EXCEPT !.entries = list.entries]
        ELSE IF list.q.rows = {}
        THEN [StoppedCompany("no_companies", listCall)
                 EXCEPT !.entries = list.entries]
        ELSE IF infoq.outcome # "ok" \/ infoq.rows = {}
        THEN [status |-> IF infoq.outcome = "ok"
                         THEN "not_found" ELSE infoq.outcome,
              sec_code |-> sec_code,
              info |-> {},
              calls |-> listCall \o infoCall,
              entries |-> list.entries]
        ELSE [status |-> "shown", sec_code |-> sec_code,
              info |-> infoq.rows,
              calls |-> listCall \o infoCall \o tabs,
              entries |-> list.entries]

\* The codes a session is opened with: none, three the store may have and
\* one it never has.
CompanyParams == {Null, 6758, 7203, 9984, 1301}

OpenCompany ==
    \E sec_code_param \in CompanyParams :
        LET list == cached([op |-> "get_company_list", limit |-> Null])
            option_list == SortCompanies(list.q.rows)
            idx == default_idx(option_list, sec_code_param)
            code == IF list.q.outcome = "ok" /\ option_list # <<>>
                    THEN option_list[idx].sec_code ELSE Null
        IN  \E info_rows \in CompanyInfoRows(code) :
              \E page \in {CompanyPage(sec_code_param, info_rows)} :
                /\ AccountAll(page.calls, openConns, lastCall)
                /\ request' = [op |-> "company page",
                               sec_code_param |-> sec_code_param]
                /\ returned' =
                       [outcome |-> IF page.status \in {"stop", "raise"}
                                    THEN page.status ELSE "ok",
                        value |-> [status |-> page.status,
                                   sec_code |-> page.sec_code,
                                   info |-> page.info],
                        error |-> IF page.status = "not_found"
                                  THEN "company not found"
                                  ELSE IF page.status = "stop"
                                  THEN "database not found" ELSE "none"]
                /\ cache' = [cache EXCEPT !.entries = page.entries]
                /\ StoreAfter(WritesAny(page.calls))
                /\ UNCHANGED <<dbFile, schema, screenVars, compareVars, now,
                               changed_at>>

\* get_company_info called on its own.
CallCompanyInfo ==
    \E sec_code \in CompanyParams \ {Null} :
        \E info_rows \in CompanyInfoRows(sec_code) :
            /\ Account("get_company_info", get_company_info(info_rows))
            /\ request' = [op |-> "get_company_info",
                           sec_code_param |-> sec_code]
            /\ returned' = Returned(get_company_info(info_rows))
            /\ UNCHANGED <<dbFile, schema, screenVars, compareVars,
                           cacheVars>>

InitCompany ==
    /\ \/ InitConn({"present"}, {FullSchema})
       \/ InitConn({"absent"}, {FullSchema})
    /\ kf = {}
    /\ companies \in CacheStores
    /\ InitScreenWidgets
    /\ InitCompareWidgets
    /\ InitCalls /\ InitText
    /\ now = 0 /\ changed_at = 0
    /\ cache = [fn |-> "get_company_list", entries |-> {}]

NextCompany == OpenCompany \/ CallCompanyInfo \/ Ingest

SpecCompany == InitCompany /\ [][NextCompany]_vars

(***************************************************************************)
(* get_screening_data over any content of the view                         *)
(***************************************************************************)

\* Every set of up to MaxRows rows, whether or not two of them share a key.
ViewContents == RowSets(SnapshotRows, MaxRows)

InitLatest ==
    /\ InitConn({"present"}, {FullSchema})
    /\ kf \in ViewContents
    /\ companies = {}
    /\ InitScreenWidgets
    /\ InitCompareWidgets
    /\ InitCalls /\ InitText /\ InitCache

NextLatest == CallGetScreeningData

SpecLatest == InitLatest /\ [][NextLatest]_vars

(***************************************************************************)
(* The viewer as a whole: every operation and page run on one store        *)
(***************************************************************************)

\* A store with rows in every table: two companies, their financial rows
\* and their text blocks.
ViewerCompanies ==
    {[sec_code |-> 6758, filer_name |-> "Sony"],
     [sec_code |-> 7203, filer_name |-> "Toyota"]}

ViewerFinancials ==
    {{MkRow(6758, NameOf(6758), 20240331, 1, ProfileOf(120000000)),
      MkRow(7203, NameOf(7203), 20240331, 1, ProfileOf(50000000))},
     {MkRow(6758, NameOf(6758), 20230331, 1, ProfileOf(50000000)),
      MkRow(6758, NameOf(6758), 20240331, 1, ProfileOf(123000000)),
      MkRow(7203, NameOf(7203), 20240331, 0, ProfileOf(120000000))}}

InitViewer ==
    /\ InitConn({"present"}, {FullSchema, FullSchema \ {"financials"}})
    /\ kf \in ViewerFinancials
    /\ companies = ViewerCompanies
    /\ InitScreenWidgets
    /\ InitCompareWidgets
    /\ InitCalls
    /\ tb = {r \in TextBlockRows : r.sec_code # Null}
    /\ now = 0 /\ changed_at = 0
    /\ cache = [fn |-> "get_company_list", entries |-> {}]

NextViewer ==
    \/ NextStorage
    \/ OpenScreening
    \/ OpenCompare
    \/ SelectCompany
    \/ OpenCompany

SpecViewer == InitViewer /\ [][NextViewer]_vars

(***************************************************************************)
(* Properties                                                              *)
(***************************************************************************)

\* C1: every data-access operation acquires at most one connection and has
\* closed it when it returns, raises or stops; so after any sequence of
\* operations, failed ones included, no connection is open.
C1_ConnectionsReleased == openConns = 0 /\ lastCall.peak <= 1

\* A statement failed on an open connection, and the connection is closed.
C1_Witness ==
    lastCall.outcome = "raise" /\ lastCall.peak = 1 /\ openConns = 0

\* The companies that have a latest consolidated row with sales, read off
\* the store.
CompaniesWithSales ==
    {c \in {r.sec_code : r \in kf} \ {Null} :
        \E r \in kf :
            /\ r.sec_code = c /\ r.is_consolidated = 1 /\ r.sales # Null
            /\ ~ \E o \in kf : /\ o.sec_code = c /\ o.is_consolidated = 1
                              /\ o.period_end > r.period_end}

StoreColumns == {"sec_code", "filer_name", "period_end", "is_consolidated"}
                    \cup MoneyCols

StoreRow(r) == [c \in StoreColumns |-> r[c]]

\* C2: with no bound set the screening returns exactly the snapshot rows
\* whose sales is not null, each a row of the store, one per company that
\* has a latest consolidated row with sales.
C2_NoBoundsPassThrough ==
    (scr.status \in {"results", "no_match", "no_data"} /\ bounds = NoBounds)
        => /\ SeqToSet(scr.result)
                = {r \in SeqToSet(scr.snapshot) : r.sales # Null}
           /\ \A r \in SeqToSet(scr.result) : StoreRow(r) \in kf
           /\ {r.sec_code : r \in SeqToSet(scr.result)} = CompaniesWithSales
           /\ Len(scr.result) = Cardinality(CompaniesWithSales)

\* A run without bounds that returned a row, dropped a snapshot row without
\* sales, and passed over an older consolidated row of a returned company.
C2_Witness ==
    /\ scr.status = "results" /\ bounds = NoBounds
    /\ \E r \in SeqToSet(scr.snapshot) : r.sales = Null
    /\ \E r \in SeqToSet(scr.result) : \E o \in kf :
          /\ o.sec_code = r.sec_code /\ o.is_consolidated = 1
          /\ o.period_end < r.period_end

\* The metric a widget bounds, and whether the widget is a lower bound.
BoundColumn(k) ==
    CASE k \in {"sales_min", "sales_max"} -> "sales"
      [] k \in {"op_min", "op_max"} -> "operating_income"
      [] k \in {"ni_min", "ni_max"} -> "net_income"
      [] k \in {"ta_min", "ta_max"} -> "total_assets"
      [] k \in {"eq_min", "eq_max"} -> "equity_ratio"
      [] k \in {"margin_min", "margin_max"} -> "op_margin"

IsMin(k) ==
    k \in {"sales_min", "op_min", "ni_min", "ta_min", "eq_min", "margin_min"}

\* value (yen, or tenths of a percent) against a bound in tenths, as
\* fractions: yen / 1e8 against bound / 10, percent against percent.
Satisfies(r, k, bound) ==
    LET v == r[BoundColumn(k)]
        lhs == IF k \in OkuBounds THEN 10 * v ELSE v
        rhs == IF k \in OkuBounds THEN bound * YenPerOku ELSE bound
    IN  /\ v # Null
        /\ IF v \in {PosInf, NegInf}
           THEN (v = PosInf) = IsMin(k)
           ELSE IF IsMin(k) THEN lhs >= rhs ELSE lhs <= rhs

\* C3: a snapshot row is in the result iff its sales is not null and it
\* has a value within every bound that is set (bounds inclusive); an unset
\* bound does not constrain, and bounds no row meets give an empty result,
\* not an error.
C3_FilterSemantics ==
    WidgetsDrawn =>
        /\ \A r \in SeqToSet(scr.snapshot) :
              (r \in SeqToSet(scr.result))
                  <=> /\ r.sales # Null
                      /\ \A k \in BoundKeys :
                            bounds[k] # Null => Satisfies(r, k, bounds[k])
        /\ SeqToSet(scr.result) \subseteq SeqToSet(scr.snapshot)
        /\ (scr.result = <<>>) <=> (scr.status = "no_match")

\* Two bounds are set, one of them met with equality by a returned row, and
\* a row that has sales is filtered out.
C3_Witness ==
    /\ scr.status = "results"
    /\ Cardinality({k \in BoundKeys : bounds[k] # Null}) = 2
    /\ bounds["sales_min"] # Null
    /\ \E r \in SeqToSet(scr.result) :
          10 * r.sales = bounds["sales_min"] * YenPerOku
    /\ \E r \in SeqToSet(scr.snapshot) :
          r.sales # Null /\ r \notin SeqToSet(scr.result)

\* sales_min = sales_max = X is the only filter, and X is what some
\* snapshot row with sales is displayed as.
PointFilter ==
    /\ WidgetsDrawn
    /\ bounds["sales_min"] # Null
    /\ bounds["sales_min"] = bounds["sales_max"]
    /\ \A k \in BoundKeys \ {"sales_min", "sales_max"} : bounds[k] = Null
    /\ \E r \in SeqToSet(scr.snapshot) :
          r.sales # Null /\ RoundOku(r.sales) = bounds["sales_min"]

\* C4 as claimed: the point filter returns exactly the rows displayed as X.
C4_Original ==
    PointFilter =>
        SeqToSet(scr.result)
            = {r \in SeqToSet(scr.snapshot) :
                  r.sales # Null /\ RoundOku(r.sales) = bounds["sales_min"]}

\* C4 amended: the point filter returns exactly the rows whose unrounded
\* oku-yen sales equal X; each of them is displayed as X, but a row
\* displayed as X is returned only if its sales is X exactly.
C4_PointFilterExact ==
    PointFilter =>
        /\ SeqToSet(scr.result)
              = {r \in SeqToSet(scr.snapshot) :
                    /\ r.sales # Null
                    /\ 10 * r.sales = bounds["sales_min"] * YenPerOku}
        /\ \A r \in SeqToSet(scr.result) :
              RoundOku(r.sales) = bounds["sales_min"]

\* The point filter returned a row and left out one displayed as X.
C4_Witness ==
    /\ PointFilter
    /\ scr.result # <<>>
    /\ \E r \in SeqToSet(scr.snapshot) :
          /\ r.sales # Null /\ RoundOku(r.sales) = bounds["sales_min"]
          /\ r \notin SeqToSet(scr.result)

\* C5 as claimed: the two ratios are null whenever their denominator is
\* null or zero, and computing them does not raise.
C5_RatioNullOnZeroDenominator ==
    /\ scr.status # "raise"
    /\ \A r \in SeqToSet(scr.snapshot) :
          /\ r.total_assets \in {Null, 0} => r.equity_ratio = Null
          /\ r.sales \in {Null, 0} => r.op_margin = Null

\* The latest row the comparison is meant to use for a company: the row of
\* greatest period_end among its consolidated rows if it has any, otherwise
\* among all its rows.
PreferredLatest(code) ==
    LET own == {r \in kf : r.sec_code = code}
        cons == {r \in own : r.is_consolidated = 1}
        pool == IF cons # {} THEN cons ELSE own
    IN  CHOOSE r \in pool : \A o \in pool : o.period_end <= r.period_end

HasRows(code) == \E r \in kf : r.sec_code = code

\* C6 as claimed: the consolidated preference is applied per company, so
\* every selected company that has a row contributes its latest row.
C6_PerCompanyPreference ==
    cmp.status = "shown" =>
        \A i \in 1..Len(cmp.selected_codes) :
            HasRows(cmp.selected_codes[i]) =>
                \E j \in 1..Len(cmp.latest_data) :
                    cmp.latest_data[j] = PreferredLatest(cmp.selected_codes[i])

\* C7 as claimed: N selected companies that all have rows give a table of
\* exactly N data columns, each monetary cell the 1-decimal oku-yen of the
\* company's latest value or the placeholder.
C7_OneColumnPerCompany ==
    (/\ cmp.status = "shown"
     /\ \A i \in 1..Len(cmp.selected_codes) : HasRows(cmp.selected_codes[i]))
        => /\ Len(cmp.table_columns)
                = Cardinality(SeqToSet(cmp.selected_codes))
           /\ \A col \in MoneyCols : \A name \in SeqToSet(cmp.table_columns) :
                 \E code \in SeqToSet(cmp.selected_codes) :
                     LET val == PreferredLatest(code)[col]
                     IN  cmp.table[col][name]
                             = IF val = Null THEN Dash ELSE RoundOku(val)

\* C8 as claimed: when two or more selected companies have data, every
\* radar polygon has the six fixed axes and every plotted value lies in
\* [0, 1], a negative metric being plotted as 0.
C8_RadarInUnitRange ==
    (/\ cmp.status = "shown"
     /\ Cardinality({d.sec_code : d \in SeqToSet(cmp.latest_data)}) >= 2)
        => /\ cmp.radar_status = "plotted"
           /\ Len(cmp.radar) = Len(cmp.latest_data)
           /\ \A i \in 1..Len(cmp.radar) :
                /\ SeqToSet(cmp.radar[i].theta) = SeqToSet(radar_metrics)
                /\ Cardinality(SeqToSet(cmp.radar[i].theta)) = 6
                /\ \A m \in 1..Len(cmp.radar[i].r) :
                      LET v == cmp.radar[i].r[m]
                      IN  v.num # Null /\ 0 <= v.num /\ v.num <= v.den

\* C9 as claimed: selected_codes has no duplicate, at most 5 entries, and is
\* in the order of selection.
C9_SelectedCodesDistinct ==
    cmp.status \in {"no_financials", "shown"} =>
        /\ \A i, j \in 1..Len(cmp.selected_codes) :
              cmp.selected_codes[i] = cmp.selected_codes[j] => i = j
        /\ Len(cmp.selected_codes) <= max_selections
        /\ cmp.selected_codes
              = [i \in 1..Len(selected_labels) |-> selected_labels[i][1]]

\* The run got as far as fetching the financials of a selection
\* (the database is there and companies are selected).
Fetched == cmp.status \in {"no_financials", "shown"}

\* C10 as claimed: with fewer than 2 selected companies having a latest
\* row, the radar view reports "insufficient selection", nothing raises, and
\* the table and the overlay are still produced.
C10_Original ==
    (Fetched /\ Cardinality({d.sec_code : d \in SeqToSet(cmp.latest_data)}) < 2)
        => /\ cmp.radar_status = "insufficient"
           /\ cmp.status = "shown"
           /\ cmp.table_columns # <<>>
           /\ cmp.overlay # <<>>

\* C10 amended: with exactly one latest row collected the radar view reports
\* "insufficient selection" and the table and the overlay are produced;
\* with none the run stops at the no-data warning before the table, the
\* overlay and the radar; the radar is plotted exactly when two or more
\* latest rows were collected. Nothing raises.
C10_InsufficientSelection ==
    Fetched =>
        /\ Len(cmp.latest_data) = 1
              => /\ cmp.status = "shown"
                 /\ cmp.radar_status = "insufficient" /\ cmp.radar = <<>>
                 /\ Len(cmp.table_columns) = 1
                 /\ Len(cmp.overlay) >= 1
        /\ Len(cmp.latest_data) = 0
              => /\ cmp.status = "no_financials"
                 /\ cmp.radar_status = "none"
                 /\ cmp.table_columns = <<>> /\ cmp.overlay = <<>>
        /\ (cmp.radar_status = "plotted") <=> (Len(cmp.latest_data) >= 2)
        /\ lastCall.outcome = "ok"

\* Two companies are selected, only one of them has rows: one latest row,
\* the table and the overlay shown, the radar reported as insufficient.
C10_Witness ==
    /\ cmp.status = "shown"
    /\ Len(cmp.selected_codes) = 2
    /\ Len(cmp.latest_data) = 1
    /\ \E i \in 1..2 : ~HasRows(cmp.selected_codes[i])
    /\ cmp.radar_status = "insufficient"
    /\ Len(cmp.overlay) = 1

\* C11: get_multi_company_financials with an empty list returns an empty
\* result without a connection or a statement; with n identifiers it issues
\* one statement of n placeholders and, the view being there, returns
\* exactly the rows of v_key_financials whose sec_code is in the list.
C11_MultiCompanyFetch ==
    request.op = "get_multi_company_financials" =>
        IF request.sec_codes = <<>>
        THEN /\ returned.outcome = "ok" /\ returned.value = <<>>
             /\ returned.issued = <<>> /\ lastCall.peak = 0
        ELSE /\ dbFile = "present" =>
                   /\ Len(returned.issued) = 1
                   /\ returned.issued[1].placeholders
                          = Len(request.sec_codes)
                   /\ returned.issued[1].params = request.sec_codes
             /\ (dbFile = "present" /\ "v_key_financials" \in schema) =>
                   /\ returned.outcome = "ok"
                   /\ returned.value
                          = {v \in kf :
                                \E i \in 1..Len(request.sec_codes) :
                                    v.sec_code = request.sec_codes[i]}

\* Two identifiers, the second of which has rows, were fetched: some rows
\* came back and some rows of the store did not.
C11_Witness ==
    /\ request.op = "get_multi_company_financials"
    /\ Len(request.sec_codes) = 2
    /\ returned.outcome = "ok"
    /\ \E v \in returned.value : v.sec_code = request.sec_codes[2]
    /\ \E v \in kf : v \notin returned.value

\* C12: the screening result is in descending order of the selected metric
\* with the rows that have no value for it last: of two adjacent rows the
\* earlier has a value at least the later's, or the later has none.
C12_SortedDescNullsLast ==
    scr.status = "results" =>
        \A i \in 1..(Len(scr.result) - 1) :
            LET a == scr.result[i][sort_option]
                b == scr.result[i + 1][sort_option]
            IN  \/ b = Null
                \/ a # Null /\ a >= b

\* Two rows sorted on a metric other than sales: the sort moved the row of
\* the greater sec_code to the front, and the last row has no value.
C12_Witness ==
    /\ scr.status = "results" /\ sort_option # "sales"
    /\ Len(scr.result) = 2
    /\ scr.result[1].sec_code > scr.result[2].sec_code
    /\ scr.result[1][sort_option] # Null
    /\ scr.result[2][sort_option] = Null

\* The text contains the keyword as a substring, letters compared without
\* regard to case.
ContainsKeyword(text, keyword) ==
    /\ text # NullText
    /\ \E i \in 1..(Len(text) - Len(keyword) + 1) :
          \A j \in 1..Len(keyword) :
              UnicodeFold(text[i + j - 1]) = UnicodeFold(keyword[j])

\* C13 as claimed: search_text_blocks with a keyword returns only rows whose
\* text_content contains the keyword as a case-insensitive substring, the
\* keywords that contain % or _ included.
C13_KeywordSubstring ==
    (request.op = "search_text_blocks" /\ returned.outcome = "ok"
        /\ request.keyword # <<>>)
        => \A i \in 1..Len(returned.value) :
               ContainsKeyword(returned.value[i].text_content,
                               request.keyword)

\* The rows of the store that satisfy every filter that is provided.
Matching ==
    {r \in tb :
        /\ request.sec_code # Null => r.sec_code = request.sec_code
        /\ request.section_label # "" =>
               r.section_label = request.section_label
        /\ request.keyword # <<>> =>
               ContainsKeyword(r.text_content, request.keyword)
        /\ request.period_end # Null => r.period_end = request.period_end}

\* C14 as claimed: the result is the rows that satisfy all provided filters,
\* ordered by period_end descending then sec_code, cut to the first `limit`
\* rows: never more than `limit` rows, only matching rows, as many of them
\* as the limit allows, in order, and no row left out that the order puts
\* before a returned one.
C14_FiltersOrderLimit ==
    (request.op = "search_text_blocks" /\ returned.outcome = "ok") =>
        LET res == returned.value
        IN  /\ Len(res) <= request.limit
            /\ SeqToSet(res) \subseteq Matching
            /\ Len(res) = Cardinality(SeqToSet(res))
            /\ Len(res) = IF Cardinality(Matching) < request.limit
                          THEN Cardinality(Matching) ELSE request.limit
            /\ \A i \in 1..(Len(res) - 1) : ~ OrderedBefore(res[i + 1], res[i])
            /\ \A r \in Matching \ SeqToSet(res) :
                   \A i \in 1..Len(res) : ~ OrderedBefore(r, res[i])

\* The highlighted text without its tags.
Unmarked(text) == SelectSeq(text, LAMBDA c : c \notin {MarkOpen, MarkClose})

\* The keyword occurs in the text at position i, letters compared without
\* regard to case.
OccursAt(keyword, text, i) ==
    /\ i + Len(keyword) - 1 <= Len(text)
    /\ \A j \in 1..Len(keyword) :
          UnicodeFold(keyword[j]) = UnicodeFold(text[i + j - 1])

\* Where, in the content, the spans wrapped in the highlighted text start.
RECURSIVE SpanStarts(_, _)
SpanStarts(marked, pos) ==
    IF marked = <<>> THEN {}
    ELSE IF Head(marked) = MarkOpen
    THEN {pos} \cup SpanStarts(Tail(marked), pos)
    ELSE IF Head(marked) = MarkClose THEN SpanStarts(Tail(marked), pos)
    ELSE SpanStarts(Tail(marked), pos + 1)

AlwaysConnect ==
    {"get_db_stats", "get_company_list", "get_company_documents",
     "get_key_financials", "get_financial_details",
     "get_company_text_blocks", "get_company_info", "get_screening_data",
     "get_text_block_sections", "search_text_blocks",
     "get_recent_documents", "app"}

\* C16: with the database file absent, an operation that needs a
\* connection emits the error, stops the view, opens no connection and
\* returns nothing; the two operations that return early on an empty
\* argument either did that or ended the same way.
C16_StorageUnavailable ==
    (dbFile = "absent" /\ request.op # "none") =>
        /\ lastCall.peak = 0 /\ openConns = 0
        /\ \/ /\ returned.outcome = "stop"
              /\ returned.error = "database not found"
              /\ returned.value = NoValue
           \/ /\ request.op \notin AlwaysConnect
              /\ returned.outcome = "ok"
              /\ returned.value = <<>>

\* get_financial_details, which catches exceptions, ran into the absent
\* file and the view was stopped all the same.
C16_Witness ==
    /\ dbFile = "absent" /\ request.op = "get_financial_details"
    /\ returned.outcome = "stop"

\* The operations whose statement reads documents only.
OnDocuments ==
    {"get_db_stats", "get_company_list", "get_company_documents",
     "get_company_info", "get_recent_documents"}

ValueNow(key) == Body(key).rows

\* C19: a call of a memoized function within the window of a stored value
\* for the same key returns that value without touching storage; a call
\* on a miss or after expiry runs the body and stores what it returns. So
\* the value served is younger than the window, and a call made a window
\* or more after the last change of the store returns the value of the
\* store as it is.
C19_CacheTimeBounded ==
    [][\A key \in CacheKeys(cache.fn) :
          (CallCached /\ request'.op = key.op
              /\ request'.limit = key.limit) =>
              LET old == {e \in cache.entries : e.key = key}
                  within == \E e \in old : now - e.stored_at < ttl(key.op)
              IN  /\ within <=> returned'.hit
                  /\ returned'.hit =>
                         /\ returned'.outcome = "ok"
                         /\ \E e \in old : returned'.value = e.value
                         /\ lastCall'.peak = 0
                         /\ cache' = cache
                  /\ ~ returned'.hit =>
                         /\ returned'.outcome = Body(key).outcome
                         /\ returned'.outcome = "ok" =>
                                /\ returned'.value = ValueNow(key)
                                /\ [key |-> key, value |-> ValueNow(key),
                                    stored_at |-> now] \in cache'.entries
                         /\ returned'.outcome # "ok" =>
                                \A e \in cache'.entries : e.key # key
                  /\ returned'.age < ttl(key.op)
                  /\ (returned'.outcome = "ok"
                         /\ now - changed_at >= ttl(key.op)) =>
                         returned'.value = ValueNow(key)]_vars

\* A value that the store no longer has was served from the cache, within
\* its window.
C19_Witness ==
    /\ request.op = "get_company_list" /\ returned.outcome = "ok"
    /\ returned.hit /\ returned.age > 0
    /\ request.at = now /\ changed_at < now
    /\ returned.value # companies

\* The codes that have a document in the store.
StoreCodes == {c.sec_code : c \in companies}

\* C18 as claimed: for a code the store does not have, get_company_info
\* returns an empty record without raising, and the company page opened
\* with that code as its sec_code parameter reports that there is no such
\* company (or no company at all): it shows no company's data and does
\* not raise.
C18_NotFoundState ==
    [][((OpenCompany \/ CallCompanyInfo)
          /\ dbFile = "present"
          /\ request'.sec_code_param # Null
          /\ request'.sec_code_param \notin StoreCodes) =>
          /\ returned'.outcome = "ok"
          /\ request'.op = "get_company_info" => returned'.value = {}
          /\ request'.op = "company page" =>
                 returned'.value.status \in {"not_found", "no_companies"}]_vars

\* C20: no operation of the system writes to the store: whatever
\* data-access operations and page runs are made, the rows of the view of
\* key financials, of documents and of text_blocks stay as they were, and
\* so do the file and its schema.
C20_StoreUnchanged ==
    [][/\ kf' = kf /\ companies' = companies /\ tb' = tb
       /\ dbFile' = dbFile /\ schema' = schema]_vars

\* The screening, the comparison and the company page have all shown data
\* of a store that has rows in every table.
C20_Witness ==
    /\ kf # {} /\ companies # {} /\ tb # {}
    /\ scr.status = "results" /\ cmp.status = "shown"
    /\ request.op = "company page" /\ returned.value.status = "shown"

\* The companies (non-NULL sec_codes) that have a consolidated row.
ConsolidatedCompanies ==
    {r.sec_code : r \in {x \in kf : x.is_consolidated = 1}} \ {Null}

\* C21: when the view holds at most one row per (sec_code, period_end,
\* is_consolidated), get_screening_data returns exactly one row for each
\* company that has a consolidated row and none for any other; each
\* returned row is a consolidated row of the view whose period_end is the
\* greatest among that company's consolidated rows; the rows are in
\* ascending sec_code order.
C21_OneLatestRowPerCompany ==
    (request.op = "get_screening_data" /\ returned.outcome = "ok"
        /\ KeyUnique(kf))
        => LET rows == returned.value
               n == Len(rows)
           IN  /\ \A c \in ConsolidatedCompanies :
                     Cardinality({i \in 1..n : rows[i].sec_code = c}) = 1
               /\ \A i \in 1..n :
                     /\ rows[i].sec_code \in ConsolidatedCompanies
                     /\ rows[i] \in kf
                     /\ rows[i].is_consolidated = 1
                     /\ \A o \in kf :
                           (o.sec_code = rows[i].sec_code
                               /\ o.is_consolidated = 1)
                               => o.period_end <= rows[i].period_end
               /\ \A i \in 1..n : \A j \in 1..n :
                     i < j => rows[i].sec_code < rows[j].sec_code

\* The call returned two companies' rows from a view with unique keys in
\* which one of them also has an older consolidated row.
C21_Witness ==
    /\ request.op = "get_screening_data" /\ returned.outcome = "ok"
    /\ KeyUnique(kf)
    /\ Len(returned.value) = 2
    /\ \E o \in kf :
          /\ o.is_consolidated = 1
          /\ o.sec_code = returned.value[1].sec_code
          /\ o.period_end < returned.value[1].period_end

\* The greatest absolute value of a metric over the latest rows, a missing
\* value counting as 0, or 1 when that is 0.
MaxAbsOrOne(latest_data, metric) ==
    LET vals == {IF latest_data[i][metric] = Null THEN 0
                 ELSE Abs(latest_data[i][metric]) :
                     i \in 1..Len(latest_data)}
        top == CHOOSE v \in vals : \A o \in vals : o <= v
    IN  IF top = 0 THEN 1 ELSE top

\* C22: on a plotted radar, for each of the six metrics the denominator of
\* every company's value is the greatest absolute value of the metric over
\* the latest rows (a missing value counting as 0; 1 when that maximum is
\* 0), so it is positive and the same whatever the order of selection, and
\* a company whose value is missing is plotted at 0.
C22_RadarDenominators ==
    cmp.radar_status = "plotted"
        => \A i \in 1..Len(cmp.radar) : \A m \in 1..Len(radar_metrics) :
              LET v == cmp.radar[i].r[m]
                  d == cmp.latest_data[i]
              IN  /\ v.den = MaxAbsOrOne(cmp.latest_data, radar_metrics[m])
                  /\ v.den > 0
                  /\ d[radar_metrics[m]] = Null => v.num = 0

\* C23: for a text longer than the display budget, the preview is the
\* first display_budget characters of the content with the keyword's
\* occurrences highlighted: no tag is cut, every opened tag is closed, and
\* without its tags the preview has display_budget characters; the count
\* shown is the length of the content and the download is the content.
C23_PreviewWithinBudget ==
    (request.op = "expander" /\ returned.outcome = "ok"
        /\ PaddedLen(request.content) > display_budget) =>
        LET shown == returned.value
            tokens == shown.preview.mid
        IN  /\ shown.preview
                   = HighlightPadded(Slice(request.content, display_budget),
                                     request.keyword)
            /\ \A i \in 1..Len(tokens) : tokens[i] \notin {CutOpen, CutClose}
            /\ Cardinality({i \in 1..Len(tokens) : tokens[i] = MarkOpen})
                   = Cardinality({i \in 1..Len(tokens) :
                                     tokens[i] = MarkClose})
            /\ shown.preview.lead + Len(Unmarked(tokens))
                   + shown.preview.trail = display_budget
            /\ shown.char_count = PaddedLen(request.content)
            /\ shown.download = request.content
====
